---- MODULE Spec2Model ----
(***************************************************************************)
(* Model of the App component of frontend/src/App.js: the React state of   *)
(* the scheduling board, its two effects, its command handlers and the     *)
(* asynchronous calendar / employee requests to the backend.               *)
(*                                                                         *)
(* Dates.  A calendar day is the number of days since 2022-01-01 (a        *)
(* Saturday).  A JavaScript Date is [day, time]; the 'yyyy-MM-dd' strings of *)
(* the program are the integers yyyymmdd (their numeric order is the       *)
(* order of the strings), the empty string is 0.                           *)
(***************************************************************************)
EXTENDS Integers, Sequences, FiniteSets, TLC

\* ------------------------------------------------------------- bounds
\* Number of user commands (clicks, key presses, edits) in a behaviour.
MaxCmds == 2
\* Number of days the wall clock advances in a behaviour.
MaxTicks == 1

VARIABLES
    now,            \* the wall clock: what new Date() returns
    ticks,          \* how many days the clock has advanced
    currentDate,    \* useState(new Date())              (line 49)
    dateRange,      \* useState({ start: '', end: '' })  (line 50)
    compactMode,    \* useState(false)                   (line 51)
    calendarData,   \* useState({...})                   (line 52)
    loading,        \* useState(true)                    (line 59)
    error,          \* useState(null)                    (line 60)
    pendingEffects, \* effects of the committed render that have not run yet
    issued,         \* every request passed to fetch(), in issue order
    settled,        \* per request: "pending", "ok" or "failed"
    lastSettled,    \* the request whose promise settled last (0: none yet)
    srvEmployees,   \* the employee table of the backend
    lastCmd         \* the last user command (history)

vars == <<now, ticks, currentDate, dateRange, compactMode, calendarData, loading,
          error, pendingEffects, issued, settled, lastSettled, srvEmployees, lastCmd>>

\* ------------------------------------------------------------- calendar
IsLeapYear(y) == (y % 4 = 0 /\ y % 100 # 0) \/ y % 400 = 0

DaysInMonth(y, m) ==
    IF m = 2 THEN (IF IsLeapYear(y) THEN 28 + 1 ELSE 28)
    ELSE IF m \in {4, 6, 9, 11} THEN 30 ELSE 31

RECURSIVE DaysBeforeYear(_)
DaysBeforeYear(y) ==
    IF y <= 2022 THEN 0
    ELSE DaysBeforeYear(y - 1) + (IF IsLeapYear(y - 1) THEN 366 ELSE 365)

RECURSIVE DaysBeforeMonth(_, _)
DaysBeforeMonth(y, m) ==
    IF m <= 1 THEN 0 ELSE DaysBeforeMonth(y, m - 1) + DaysInMonth(y, m - 1)

\* new Date(y, m - 1, d): the day number of a calendar date.
MakeDay(y, m, d) == DaysBeforeYear(y) + DaysBeforeMonth(y, m) + (d - 1)

RECURSIVE YearFrom(_, _)
YearFrom(y, n) == IF n < DaysBeforeYear(y + 1) THEN y ELSE YearFrom(y + 1, n)

RECURSIVE MonthFrom(_, _, _)
MonthFrom(y, m, n) ==
    IF n < DaysBeforeYear(y) + DaysBeforeMonth(y, m + 1) THEN m ELSE MonthFrom(y, m + 1, n)

getFullYear(n) == YearFrom(2022, n)
getMonth(n) == MonthFrom(getFullYear(n), 1, n)              \* 1..12 here
getDate(n) == n - MakeDay(getFullYear(n), getMonth(n), 1) + 1

\* getDay: 0 = Sunday ... 6 = Saturday.
getDay(n) == (n + 6) % 7

StartOfDay == "00:00:00.000"
EndOfDay == "23:59:59.999"
ClockTime == "12:34:56.789"

\* date-fns startOfWeek(date, { weekStartsOn }).
startOfWeek(date, weekStartsOn) ==
    LET day == getDay(date.day)
        diff == (IF day < weekStartsOn THEN 7 ELSE 0) + day - weekStartsOn
    IN [day |-> date.day - diff, time |-> StartOfDay]

\* date-fns endOfWeek(date, { weekStartsOn }).
endOfWeek(date, weekStartsOn) ==
    LET day == getDay(date.day)
        diff == (IF day < weekStartsOn THEN 0 - 7 ELSE 0) + 6 - (day - weekStartsOn)
    IN [day |-> date.day + diff, time |-> EndOfDay]

\* date-fns addDays / addWeeks / subWeeks: the time of day is kept.
addDays(date, amount) == [date EXCEPT !.day = @ + amount]
addWeeks(date, amount) == addDays(date, amount * 7)
subWeeks(date, amount) == addWeeks(date, 0 - amount)

\* date-fns addMonths: the day of the month is clamped to the target month.
addMonths(date, amount) ==
    LET y == getFullYear(date.day)
        m == getMonth(date.day)
        d == getDate(date.day)
        m0 == (m - 1) + amount
        ty == y + (m0 \div 12)
        tm == (m0 % 12) + 1
        last == DaysInMonth(ty, tm)
    IN [date EXCEPT !.day = MakeDay(ty, tm, IF d >= last THEN last ELSE d)]

\* date-fns format(date, 'yyyy-MM-dd').
format(date) ==
    getFullYear(date.day) * 10000 + getMonth(date.day) * 100 + getDate(date.day)

\* date-fns parseISO of a 'yyyy-MM-dd' string: local midnight of that day.
parseISO(s) ==
    [day |-> MakeDay(s \div 10000, (s \div 100) % 100, s % 100), time |-> StartOfDay]

\* ------------------------------------------------------------- windows
EmptyRange == [start |-> 0, end |-> 0]

\* Mutants: the week computed with date-fns' default, weekStartsOn: 0.
WeekStart_sunday(date) == startOfWeek(date, 0)
WeekEnd_saturday(date) == endOfWeek(date, 0)

\* Lines 76-77 and 119-140: every week computation passes weekStartsOn: 1.
WeekStart(date) == startOfWeek(date, 1)
WeekEnd(date) == endOfWeek(date, 1)

\* The body of the currentDate effect (lines 76-82).
anchorRange(anchor) ==
    LET start == WeekStart(anchor)
        end == WeekEnd(start)
    IN [start |-> format(start), end |-> format(end)]

QuickFilters == {"1week", "2weeks", "3weeks", "1month", "2months", "3months"}

\* Mutant: each preset adds its own number (2 weeks for '2weeks', ...).
quickFilterEnd_count(type, start) ==
    CASE type = "1week" -> WeekEnd(addWeeks(start, 1))
      [] type = "2weeks" -> WeekEnd(addWeeks(start, 2))
      [] type = "3weeks" -> WeekEnd(addWeeks(start, 3))
      [] type = "1month" -> WeekEnd(addMonths(start, 1))
      [] type = "2months" -> WeekEnd(addMonths(start, 2))
      [] type = "3months" -> WeekEnd(addMonths(start, 3))

\* The switch of setQuickFilter (lines 117-144): the end date of a preset.
quickFilterEnd(type, start) ==
    CASE type = "1week" -> WeekEnd(start)
      [] type = "2weeks" -> WeekEnd(addWeeks(start, 1))
      [] type = "3weeks" -> WeekEnd(addWeeks(start, 2))
      [] type = "1month" -> WeekEnd(addMonths(start, 1))
      [] type = "2months" -> WeekEnd(addMonths(start, 2))
      [] type = "3months" -> WeekEnd(addMonths(start, 3))

\* Mutant: 'prev' goes back six days.
navigateDate_short(date, direction) ==
    IF direction = "next" THEN addWeeks(date, 1) ELSE addDays(date, 0 - 6)

\* navigateWeek's new anchor (line 155).
navigateDate(date, direction) ==
    IF direction = "next" THEN addWeeks(date, 1) ELSE subWeeks(date, 1)

\* ------------------------------------------------------------- names
\* A name is a sequence of characters; " " is the only whitespace used.
RECURSIVE trimStart(_)
trimStart(s) == IF s # <<>> /\ Head(s) = " " THEN trimStart(Tail(s)) ELSE s

RECURSIVE trimEnd(_)
trimEnd(s) ==
    IF s # <<>> /\ s[Len(s)] = " " THEN trimEnd(SubSeq(s, 1, Len(s) - 1)) ELSE s

\* Mutant: only the leading whitespace is removed.
trim_leading(s) == trimStart(s)

trim(s) == trimEnd(trimStart(s))

NameInputs == {<<>>, <<" ">>, <<"A", " ">>}

\* ------------------------------------------------------------- requests
NoError == "null"
FetchError == "Feil ved lasting av kalenderdata"
CreateError == "Feil ved opprettelse av ansatt"
UpdateError == "Feil ved oppdatering av ansatt"

\* A request record.  For "calendar" range/compact are the body sent (lines
\* 97-101).  For "create"/"update" name, position and id are the request
\* (lines 223-229, 241-244) and range/compact are the dateRange/compactMode
\* captured by the handler's closure, used by its fetchCalendarData() call.
Request(kind, range, compact, name, position, id) ==
    [kind |-> kind, range |-> range, compact |-> compact,
     name |-> name, position |-> position, id |-> id]

\* Mutant: compact_mode is sent as false, the initial state.
CalendarRequest_expanded(range, compact) == Request("calendar", range, FALSE, <<>>, 0, 0)

\* The body of the POST /calendar (lines 97-101).
CalendarRequest(range, compact) == Request("calendar", range, compact, <<>>, 0, 0)

InFlight == {r \in 1..Len(issued) : settled[r] = "pending"}
Mutations == {"create", "update"}

\* The first half of fetchCalendarData (lines 94-102): setLoading(true) and
\* the POST /calendar with the dateRange and compactMode of the closure.
\* done is the settle state of the earlier requests at the call.
fetchCalendarData(range, compact, done) ==
    /\ loading' = TRUE
    /\ issued' = Append(issued, CalendarRequest(range, compact))
    /\ settled' = Append(done, "pending")

\* What the App renders (lines 251-276).
LoadingScreen == loading
ErrorScreen == ~loading /\ error # NoError
GridRendered == ~loading /\ error = NoError

\* ------------------------------------------------------------- initial state
\* Monday 2023-01-30 .. Sunday 2023-02-05.
InitDays == 394..400

Init ==
    /\ now \in InitDays
    /\ ticks = 0
    /\ currentDate = [day |-> now, time |-> ClockTime]
    /\ dateRange = EmptyRange
    /\ compactMode = FALSE
    /\ calendarData = [req |-> 0, range |-> EmptyRange, compact |-> FALSE,
                       employees |-> <<>>, services |-> <<>>, absences |-> <<>>]
    /\ loading = TRUE
    /\ error = NoError
    /\ pendingEffects = {"currentDate", "dateRange"}
    /\ issued = <<>>
    /\ settled = <<>>
    /\ lastSettled = 0
    /\ srvEmployees = <<>>
    /\ lastCmd = [n |-> 0, op |-> "mount", arg |-> "", today |-> now,
                  before |-> EmptyRange, trip |-> "none"]

\* ------------------------------------------------------------- effects
\* One flush of the effects of the committed render (lines 75-90).  Both
\* effects read the state of that render; the currentDate effect's
\* setDateRange makes a new object, so the next render runs the dateRange
\* effect again.
RunEffects ==
    /\ pendingEffects # {}
    /\ dateRange' = IF "currentDate" \in pendingEffects
                      THEN anchorRange(currentDate) ELSE dateRange
    /\ pendingEffects' = IF "currentDate" \in pendingEffects THEN {"dateRange"} ELSE {}
    /\ IF "dateRange" \in pendingEffects /\ dateRange.start # 0 /\ dateRange.end # 0
         THEN fetchCalendarData(dateRange, compactMode, settled)
         ELSE UNCHANGED <<loading, issued, settled>>
    /\ UNCHANGED <<now, ticks, currentDate, compactMode, calendarData, error,
                   lastSettled, srvEmployees, lastCmd>>

\* ------------------------------------------------------------- commands
\* A user command needs its control on screen, runs after the effects of
\* the last render, and is counted.
CanCommand == pendingEffects = {} /\ lastCmd.n < MaxCmds

\* The history record of a command.  before is the window the command found;
\* a navigateWeek('prev') that directly follows a navigateWeek('next') keeps
\* the window found by that 'next' (trip = "nextprev").
Command(op, arg) ==
    LET back == op = "navigateWeek" /\ arg = "prev"
                  /\ lastCmd.op = "navigateWeek" /\ lastCmd.arg = "next"
    IN [n |-> lastCmd.n + 1, op |-> op, arg |-> arg, today |-> now,
        before |-> IF back THEN lastCmd.before ELSE dateRange,
        trip |-> IF back THEN "nextprev" ELSE "none"]

\* setQuickFilter for one of the six cases (lines 115-141, 146-150):
\* setDateRange and setCurrentDate, which schedule both effects.
applyQuickFilter(type) ==
    LET today == [day |-> now, time |-> ClockTime]
        start == WeekStart(today)
        end == quickFilterEnd(type, start)
    IN /\ dateRange' = [start |-> format(start), end |-> format(end)]
       /\ currentDate' = start
       /\ pendingEffects' = {"currentDate", "dateRange"}

\* Mutant: the default case falls into case '1week'.
setQuickFilter_fallthrough(type) ==
    /\ CanCommand /\ GridRendered
    /\ lastCmd' = Command("setQuickFilter", type)
    /\ applyQuickFilter(IF type \in QuickFilters THEN type ELSE "1week")
    /\ UNCHANGED <<now, ticks, compactMode, calendarData, loading, error,
                   issued, settled, lastSettled, srvEmployees>>

\* setQuickFilter (lines 113-151), from the buttons of lines 288-293 or with
\* any other type (default: return, lines 142-143).
setQuickFilter(type) ==
    /\ CanCommand /\ GridRendered
    /\ lastCmd' = Command("setQuickFilter", type)
    /\ IF type \in QuickFilters
         THEN applyQuickFilter(type)
         ELSE UNCHANGED <<dateRange, currentDate, pendingEffects>>
    /\ UNCHANGED <<now, ticks, compactMode, calendarData, loading, error,
                   issued, settled, lastSettled, srvEmployees>>

\* navigateWeek (lines 154-157), from the buttons of lines 297-298.
navigateWeek(direction) ==
    /\ CanCommand /\ GridRendered
    /\ lastCmd' = Command("navigateWeek", direction)
    /\ currentDate' = navigateDate(currentDate, direction)
    /\ pendingEffects' = {"currentDate"}
    /\ UNCHANGED <<now, ticks, dateRange, compactMode, calendarData, loading, error,
                   issued, settled, lastSettled, srvEmployees>>

\* The compact-mode checkbox (lines 302-306).
toggleCompact ==
    /\ CanCommand /\ GridRendered
    /\ lastCmd' = Command("setCompactMode", "")
    /\ compactMode' = ~compactMode
    /\ pendingEffects' = {"dateRange"}
    /\ UNCHANGED <<now, ticks, currentDate, dateRange, calendarData, loading, error,
                   issued, settled, lastSettled, srvEmployees>>

\* The retry button of the error screen (lines 265-270).
retry ==
    /\ CanCommand /\ ErrorScreen
    /\ lastCmd' = Command("retry", "")
    /\ fetchCalendarData(dateRange, compactMode, settled)
    /\ UNCHANGED <<now, ticks, currentDate, dateRange, compactMode, calendarData, error,
                   pendingEffects, lastSettled, srvEmployees>>

\* The request of a handler that awaits an employee call and then calls the
\* fetchCalendarData of its own render.
issueMutation(req) ==
    /\ issued' = Append(issued, req)
    /\ settled' = Append(settled, "pending")

\* addEmployee up to its await (lines 219-229), from the input of lines
\* 395-405.
addEmployee(name) ==
    /\ CanCommand /\ GridRendered
    /\ lastCmd' = Command("addEmployee", name)
    /\ IF trim(name) = <<>>
         THEN UNCHANGED <<issued, settled>>
         ELSE issueMutation(Request("create", dateRange, compactMode,
                                    trim(name), Len(calendarData.employees), 0))
    /\ UNCHANGED <<now, ticks, currentDate, dateRange, compactMode, calendarData, loading,
                   error, pendingEffects, lastSettled, srvEmployees>>

\* Mutant: the PUT body also carries a position, as the POST of addEmployee.
UpdateRequest_positioned(employeeId, newName) ==
    Request("update", dateRange, compactMode, trim(newName),
            Len(calendarData.employees), employeeId)

\* The PUT /employees/{employeeId} of updateEmployeeName (lines 241-244):
\* the body holds the name only (position -1: no position is sent).
UpdateRequest(employeeId, newName) ==
    Request("update", dateRange, compactMode, trim(newName), 0 - 1, employeeId)

\* updateEmployeeName up to its await (lines 237-244), from the inputs of
\* lines 383-389.
updateEmployeeName(employeeId, newName) ==
    /\ CanCommand /\ GridRendered
    /\ lastCmd' = Command("updateEmployeeName", newName)
    /\ IF trim(newName) = <<>>
         THEN UNCHANGED <<issued, settled>>
         ELSE issueMutation(UpdateRequest(employeeId, newName))
    /\ UNCHANGED <<now, ticks, currentDate, dateRange, compactMode, calendarData, loading,
                   error, pendingEffects, lastSettled, srvEmployees>>

\* ------------------------------------------------------------- responses
\* The promise of request r settles (apiCall returns or throws, lines 9-28).
Settle(r, outcome) ==
    /\ pendingEffects = {}
    /\ r \in InFlight
    /\ settled' = [settled EXCEPT ![r] = outcome]
    /\ lastSettled' = r

\* The response to calendar request r: the rows of the requested window
\* (range stands for date_range), the roster and the events.
Response(r, employees, services, absences) ==
    [req |-> r, range |-> issued[r].range, compact |-> issued[r].compact,
     employees |-> employees, services |-> services, absences |-> absences]

\* fetchCalendarData after a successful await (lines 103-104, 108), with
\* data the parsed response.
receiveCalendar(r, data) ==
    /\ Settle(r, "ok")
    /\ issued[r].kind = "calendar"
    /\ calendarData' = data
    /\ error' = NoError
    /\ loading' = FALSE
    /\ UNCHANGED <<now, ticks, currentDate, dateRange, compactMode, pendingEffects,
                   issued, srvEmployees, lastCmd>>

\* A successful fetch from a backend that holds the roster and no events.
fetchSucceeds(r) == receiveCalendar(r, Response(r, srvEmployees, <<>>, <<>>))

\* Mutant: the failure path without the finally block's setLoading(false).
fetchFails_stuck(r) ==
    /\ Settle(r, "failed")
    /\ issued[r].kind = "calendar"
    /\ error' = FetchError
    /\ UNCHANGED <<now, ticks, currentDate, dateRange, compactMode, calendarData, loading,
                   pendingEffects, issued, srvEmployees, lastCmd>>

\* fetchCalendarData after apiCall threw (lines 105-108).
fetchFails(r) ==
    /\ Settle(r, "failed")
    /\ issued[r].kind = "calendar"
    /\ error' = FetchError
    /\ loading' = FALSE
    /\ UNCHANGED <<now, ticks, currentDate, dateRange, compactMode, calendarData,
                   pendingEffects, issued, srvEmployees, lastCmd>>

\* The backend's effect of a successful employee request.
applyMutation(req) ==
    IF req.kind = "create"
      THEN Append(srvEmployees, [id |-> Len(srvEmployees) + 1, name |-> req.name,
                                 position |-> req.position])
      ELSE [i \in 1..Len(srvEmployees) |->
              IF srvEmployees[i].id = req.id
                THEN [srvEmployees[i] EXCEPT !.name = req.name] ELSE srvEmployees[i]]

\* addEmployee / updateEmployeeName after a successful await (lines 230,
\* 245): fetchCalendarData() of the closure the handler was created in.
mutationSucceeds(r) ==
    /\ pendingEffects = {}
    /\ r \in InFlight
    /\ issued[r].kind \in Mutations
    /\ lastSettled' = r
    /\ srvEmployees' = applyMutation(issued[r])
    /\ fetchCalendarData(issued[r].range, issued[r].compact, [settled EXCEPT ![r] = "ok"])
    /\ UNCHANGED <<now, ticks, currentDate, dateRange, compactMode, calendarData, error,
                   pendingEffects, lastCmd>>

\* addEmployee / updateEmployeeName after apiCall threw (lines 231-233,
\* 246-248).
mutationFails(r) ==
    /\ Settle(r, "failed")
    /\ issued[r].kind \in Mutations
    /\ error' = IF issued[r].kind = "create" THEN CreateError ELSE UpdateError
    /\ UNCHANGED <<now, ticks, currentDate, dateRange, compactMode, calendarData, loading,
                   pendingEffects, issued, srvEmployees, lastCmd>>

\* The wall clock moves on to the next day.
Tick ==
    /\ pendingEffects = {}
    /\ ticks < MaxTicks
    /\ now' = now + 1
    /\ ticks' = ticks + 1
    /\ UNCHANGED <<currentDate, dateRange, compactMode, calendarData, loading, error,
                   pendingEffects, issued, settled, lastSettled, srvEmployees, lastCmd>>

\* ------------------------------------------------------------- grid
\* employeeId = null (line 168, and unassigned services).
NullId == 0

\* Mutant: the end date of an absence is excluded.
getEventsForCell_openEnd(date, employeeId) ==
    [services |-> SelectSeq(calendarData.services,
                     LAMBDA service : service.date = date /\ service.employee_id = employeeId),
     absences |-> SelectSeq(calendarData.absences,
                     LAMBDA absence : /\ absence.employee_id = employeeId
                                      /\ absence.start_date <= date
                                      /\ absence.end_date > date)]

\* Mutant: services are matched on the date only.
getEventsForCell_anyEmployee(date, employeeId) ==
    [services |-> SelectSeq(calendarData.services, LAMBDA service : service.date = date),
     absences |-> SelectSeq(calendarData.absences,
                     LAMBDA absence : /\ absence.employee_id = employeeId
                                      /\ absence.start_date <= date
                                      /\ absence.end_date >= date)]

\* getEventsForCell (lines 168-180); the dates are compared as strings.
getEventsForCell(date, employeeId) ==
    [services |-> SelectSeq(calendarData.services,
                     LAMBDA service : service.date = date /\ service.employee_id = employeeId),
     absences |-> SelectSeq(calendarData.absences,
                     LAMBDA absence : /\ absence.employee_id = employeeId
                                      /\ absence.start_date <= date
                                      /\ absence.end_date >= date)]

\* The rows of the grid: calendarData.date_range (line 409), every date of
\* the loaded window.
dateRows ==
    IF calendarData.range = EmptyRange THEN <<>>
    ELSE [i \in 1..(parseISO(calendarData.range.end).day
                      - parseISO(calendarData.range.start).day + 1) |->
            format(addDays(parseISO(calendarData.range.start), i - 1))]

\* The cards of the inbox cell of a row (lines 424-428): services only.
InboxCell(date) ==
    [services |-> getEventsForCell(date, NullId).services, absences |-> <<>>]

\* The cards of an employee's cell of a row (lines 431-439).
EmployeeCell(date, employee) == getEventsForCell(date, employee.id)

\* The events a fetch can deliver to the grid: two employees, services on
\* two days for either employee or unassigned, absences of either employee
\* that overlap, span the turn of the month or last one day.
MaxEvents == 2
CellEmployees ==
    << [id |-> 1, name |-> <<"A">>, position |-> 0],
       [id |-> 2, name |-> <<"B">>, position |-> 1] >>
ServiceInputs ==
    {[date |-> d, employee_id |-> e] : d \in {20230131, 20230201}, e \in {NullId, 1, 2}}
AbsenceInputs ==
    {[employee_id |-> e, start_date |-> w[1], end_date |-> w[2]] :
        e \in {1, 2},
        w \in {<<20230130, 20230201>>, <<20230201, 20230203>>, <<20230205, 20230205>>}}
UpTo(S, n) == UNION {[1..k -> S] : k \in 0..n}

\* A successful fetch that delivers events.
fetchDelivers(r) ==
    \E services \in UpTo(ServiceInputs, MaxEvents), absences \in UpTo(AbsenceInputs, MaxEvents) :
        receiveCalendar(r, Response(r, CellEmployees, services, absences))

\* ------------------------------------------------------------- specification
\* The inputs of the full specification: a preset equal to the anchor week,
\* a longer preset and a type that is no preset; a Monday and a Sunday.
SyncFilters == {"1week", "2months", "4weeks"}
SyncDays == {394, 400}

Next ==
    \/ RunEffects
    \/ \E type \in SyncFilters : setQuickFilter(type)
    \/ \E direction \in {"prev", "next"} : navigateWeek(direction)
    \/ toggleCompact
    \/ retry
    \/ \E name \in NameInputs : addEmployee(name)
    \/ \E e \in 1..Len(calendarData.employees), name \in NameInputs :
          updateEmployeeName(calendarData.employees[e].id, name)
    \/ \E r \in 1..Len(issued) : fetchSucceeds(r)
    \/ \E r \in 1..Len(issued) : fetchFails(r)
    \/ \E r \in 1..Len(issued) : mutationSucceeds(r)
    \/ \E r \in 1..Len(issued) : mutationFails(r)
    \/ Tick

SyncInit == Init /\ now \in SyncDays

Spec == SyncInit /\ [][Next]_vars

\* The window commands alone (initial load, quick filters, navigation and
\* the compact toggle, every request answered with success), over every
\* weekday and every quick-filter type.
FilterInputs == QuickFilters \cup {"4weeks"}

WindowNext ==
    \/ RunEffects
    \/ \E type \in FilterInputs : setQuickFilter(type)
    \/ \E direction \in {"prev", "next"} : navigateWeek(direction)
    \/ toggleCompact
    \/ \E r \in 1..Len(issued) : fetchSucceeds(r)
    \/ Tick

WindowSpec == Init /\ [][WindowNext]_vars

\* The grid of the first load, over the events a fetch can deliver.
CellInit == Init /\ now = 394

CellNext ==
    \/ RunEffects
    \/ \E r \in InFlight : fetchDelivers(r)

CellSpec == CellInit /\ [][CellNext]_vars

\* The commands that issue requests, with a collaborator that answers every
\* request: apiCall returns or throws (lines 9-28), and the effects of a
\* render always run.
Respond ==
    \E r \in InFlight :
        \/ fetchSucceeds(r)
        \/ fetchFails(r)
        \/ mutationSucceeds(r)
        \/ mutationFails(r)

LiveInit == Init /\ now = 394

LiveNext ==
    \/ RunEffects
    \/ setQuickFilter("1week")
    \/ toggleCompact
    \/ retry
    \/ addEmployee(<<"A", " ">>)
    \/ Respond

LiveSpec == LiveInit /\ [][LiveNext]_vars /\ WF_vars(RunEffects) /\ WF_vars(Respond)

\* ------------------------------------------------------------- properties
DayOf(s) == parseISO(s).day
CalendarRequests == {r \in 1..Len(issued) : issued[r].kind = "calendar"}
JustRan(op) == lastCmd.op = op /\ pendingEffects = {"currentDate", "dateRange"}

\* C1: when refresh r1 was issued for one window and refresh r2 later for
\* another, both succeeded and r1's response came last, the loaded
\* calendarData is not r1's but that of r2 (or of a later refresh).
C1_LastIssuedWins ==
    \A r1, r2 \in CalendarRequests :
        (/\ r1 < r2
         /\ issued[r1].range # issued[r2].range
         /\ settled[r1] = "ok" /\ settled[r2] = "ok"
         /\ lastSettled = r1)
        => calendarData.req >= r2

\* The day N calendar months after the 'yyyy-MM-dd' date s, kept inside the
\* target month.
MonthsAfter(s, n) ==
    LET y == s \div 10000
        m == (s \div 100) % 100
        d == s % 100
        ty == y + ((m - 1 + n) \div 12)
        tm == ((m - 1 + n) % 12) + 1
    IN MakeDay(ty, tm, IF d > DaysInMonth(ty, tm) THEN DaysInMonth(ty, tm) ELSE d)

PresetWeeks(type) == CASE type = "1week" -> 0 [] type = "2weeks" -> 1 [] type = "3weeks" -> 2
PresetMonths(type) == CASE type = "1month" -> 1 [] type = "2months" -> 2 [] type = "3months" -> 3

\* C2: right after setQuickFilter(kind) for one of the six presets, the
\* window starts on the Monday of today's week, ends on the Sunday of the
\* week containing start + 0/1/2 weeks or start + 1/2/3 calendar months,
\* and the anchor is the start.
C2_QuickFilterWindow ==
    (JustRan("setQuickFilter") /\ lastCmd.arg \in QuickFilters) =>
        LET start == DayOf(dateRange.start)
            end == DayOf(dateRange.end)
        IN /\ getDay(start) = 1
           /\ start <= lastCmd.today /\ lastCmd.today <= start + 6
           /\ currentDate = [day |-> start, time |-> StartOfDay]
           /\ getDay(end) = 0
           /\ IF lastCmd.arg \in {"1week", "2weeks", "3weeks"}
                THEN end = start + 7 * PresetWeeks(lastCmd.arg) + 6
                ELSE LET target == MonthsAfter(dateRange.start, PresetMonths(lastCmd.arg))
                     IN end - 6 <= target /\ target <= end

\* C2 witness: '1month' on Monday 2023-01-30, where January 30 + 1 month is
\* kept inside February.
C2_Witness ==
    /\ JustRan("setQuickFilter") /\ lastCmd.arg = "1month"
    /\ dateRange = [start |-> 20230130, end |-> 20230305]

\* C3: a non-empty dateRange starts on a Monday, ends on a Sunday and has
\* start <= end, in every state reached by initial load, navigation, quick
\* filters and compact toggles.
C3_WindowAligned ==
    dateRange # EmptyRange =>
        /\ getDay(DayOf(dateRange.start)) = 1
        /\ getDay(DayOf(dateRange.end)) = 0
        /\ dateRange.start <= dateRange.end

\* C3 witness: the three-month preset set from a mid-week day, and then
\* replaced by the window of the anchor.
C3_Witness ==
    /\ lastCmd.op = "setQuickFilter" /\ lastCmd.arg = "3months"
    /\ getDay(lastCmd.today) = 3
    /\ pendingEffects = {}
    /\ dateRange # EmptyRange

\* C4: once the currentDate effect has run for the anchor, the window starts
\* on the Monday on or before the anchor and ends exactly six days later, so
\* the anchor lies inside it.
C4_AnchorWindow ==
    "currentDate" \notin pendingEffects =>
        LET start == DayOf(dateRange.start)
            end == DayOf(dateRange.end)
        IN /\ dateRange # EmptyRange
           /\ getDay(start) = 1
           /\ start <= currentDate.day /\ currentDate.day <= start + 6
           /\ end = start + 6

\* C4 witness: the window of a Sunday anchor, reached by navigation.
C4_Witness ==
    /\ "currentDate" \notin pendingEffects
    /\ lastCmd.op = "navigateWeek"
    /\ getDay(currentDate.day) = 0

C6_UnknownFilterNoOp ==
    [][(/\ lastCmd'.n # lastCmd.n
        /\ lastCmd'.op = "setQuickFilter"
        /\ lastCmd'.arg \notin QuickFilters)
       => UNCHANGED <<dateRange, currentDate, pendingEffects, issued, settled, loading,
                      error, calendarData, compactMode>>]_vars

\* C6 witness: setQuickFilter('4weeks') has run on a loaded grid.
C6_Witness ==
    /\ lastCmd.op = "setQuickFilter" /\ lastCmd.arg = "4weeks"
    /\ lastCmd.before # EmptyRange
    /\ pendingEffects = {}

\* Request r settles in this step / a new request is issued in this step.
SettlesNow(r) == settled[r] = "pending" /\ settled'[r] # "pending"
IssuesFetch(range, compact) ==
    /\ Len(issued') = Len(issued) + 1
    /\ issued'[Len(issued')] = Request("calendar", range, compact, <<>>, 0, 0)
    /\ settled'[Len(issued')] = "pending"
    /\ loading'

\* C7: when the request of addEmployee or updateEmployeeName settles, with
\* success or with failure, a calendar fetch is issued.
C7_RefreshAfterMutation ==
    [][\A r \in 1..Len(issued) :
          (issued[r].kind \in Mutations /\ SettlesNow(r)) =>
              (Len(issued') = Len(issued) + 1 /\ issued'[Len(issued')].kind = "calendar")]_vars

\* C8: a failed create or rename does not bring up the error screen that
\* replaces the grid.
C8_MutationErrorNonBlocking ==
    [][\A r \in 1..Len(issued) :
          (issued[r].kind \in Mutations /\ SettlesNow(r) /\ settled'[r] = "failed") =>
              ~(~loading' /\ error' # NoError)]_vars

\* C9: a failed refresh brings up the error screen (its error set, no grid),
\* and that screen is left only by the retry command, which issues a fetch
\* for the current dateRange and compactMode (read with the re-entry of
\* Loading after a successful employee request left aside).
C9_FailedUntilRetry ==
    [][/\ \A r \in 1..Len(issued) :
            (issued[r].kind = "calendar" /\ SettlesNow(r) /\ settled'[r] = "failed") =>
                (~loading' /\ error' = FetchError)
       /\ (/\ ErrorScreen /\ error = FetchError
           /\ ~(~loading' /\ error' # NoError)
           /\ ~\E r \in 1..Len(issued) : issued[r].kind \in Mutations /\ SettlesNow(r)) =>
            (/\ lastCmd'.n # lastCmd.n /\ lastCmd'.op = "retry"
             /\ IssuesFetch(dateRange, compactMode))]_vars

\* C10: a change of dateRange or compactMode schedules the dateRange effect,
\* whose run issues a fetch carrying that (new) dateRange and compactMode
\* and sets loading; a successful employee request issues a fetch and sets
\* loading.  (The effect of the first render finds the empty dateRange.)
C10_ChangeIssuesFetch ==
    [][/\ (dateRange' # dateRange \/ compactMode' # compactMode) =>
            (/\ "dateRange" \in pendingEffects'
             /\ dateRange'.start # 0 /\ dateRange'.end # 0)
       /\ ("dateRange" \in pendingEffects /\ pendingEffects' # pendingEffects
           /\ dateRange # EmptyRange) =>
            IssuesFetch(dateRange, compactMode)
       /\ \A r \in 1..Len(issued) :
            (issued[r].kind \in Mutations /\ SettlesNow(r) /\ settled'[r] = "ok") =>
                (/\ Len(issued') = Len(issued) + 1
                 /\ issued'[Len(issued')].kind = "calendar"
                 /\ loading')]_vars

\* C10 witness: the compact toggle on a loaded grid has led to a fetch with
\* compact_mode true for the current window, and the App is loading.
C10_Witness ==
    /\ lastCmd.op = "setCompactMode" /\ compactMode
    /\ pendingEffects = {}
    /\ loading
    /\ Len(issued) > 1
    /\ issued[Len(issued)] = Request("calendar", dateRange, TRUE, <<>>, 0, 0)

\* s consists of whitespace only; t is s without its leading and trailing
\* whitespace.
Blank(s) == \A i \in 1..Len(s) : s[i] = " "
Trimmed(t, s) ==
    /\ t # <<>> /\ t[1] # " " /\ t[Len(t)] # " "
    /\ \E i \in 0..Len(s) :
          /\ i + Len(t) <= Len(s)
          /\ SubSeq(s, i + 1, i + Len(t)) = t
          /\ \A k \in (1..i) \cup ((i + Len(t) + 1)..Len(s)) : s[k] = " "
CommandRuns(op) == lastCmd'.n # lastCmd.n /\ lastCmd'.op = op
RestUnchanged ==
    UNCHANGED <<now, ticks, currentDate, dateRange, compactMode, calendarData, loading,
                error, pendingEffects, lastSettled, srvEmployees>>

\* C11: addEmployee(name) with a blank name issues no request and changes no
\* state; otherwise it issues exactly one request, a create whose name is
\* the trimmed input and whose position is the length of the loaded roster.
C11_AddEmployeeRequest ==
    [][CommandRuns("addEmployee") =>
         /\ RestUnchanged
         /\ IF Blank(lastCmd'.arg)
              THEN UNCHANGED <<issued, settled>>
              ELSE /\ Len(issued') = Len(issued) + 1
                   /\ SubSeq(issued', 1, Len(issued)) = issued
                   /\ issued'[Len(issued')].kind = "create"
                   /\ Trimmed(issued'[Len(issued')].name, lastCmd'.arg)
                   /\ issued'[Len(issued')].position = Len(calendarData.employees)]_vars

\* C11 witness: a second employee is being created, at position 1, from an
\* input with trailing whitespace.
C11_Witness ==
    /\ lastCmd.op = "addEmployee" /\ lastCmd.arg = <<"A", " ">>
    /\ Len(calendarData.employees) = 1
    /\ issued[Len(issued)].kind = "create"
    /\ issued[Len(issued)].position = 1
    /\ issued[Len(issued)].name = <<"A">>

CellDates ==
    LET rows == dateRows IN {rows[i] : i \in 1..Len(rows)} \cup {20230129, 20230206}
Roster == {calendarData.employees[e] : e \in 1..Len(calendarData.employees)}
Count(seq, x) == Cardinality({i \in 1..Len(seq) : seq[i] = x})
AbsenceDays == UNION {{a.start_date, a.end_date} : a \in AbsenceInputs}

\* C13: for every date d and employee E, the absences of cell (d, E) are
\* exactly the loaded absences of E whose first day is on or before d and
\* whose last day is on or after d, each as often as it is loaded.
C13_AbsencesOfCell ==
    LET dates == CellDates
        day == [x \in dates \cup AbsenceDays |-> DayOf(x)]
    IN \A d \in dates, E \in {emp.id : emp \in Roster} \cup {NullId} :
          LET got == getEventsForCell(d, E).absences
          IN \A a \in AbsenceInputs :
                Count(got, a) =
                   IF /\ a.employee_id = E
                      /\ day[a.start_date] <= day[d] /\ day[d] <= day[a.end_date]
                     THEN Count(calendarData.absences, a) ELSE 0

\* C13 witness: two different absences of employee 1 are loaded and both
\* are in the cell of 2023-02-01, the last day of one and the first of the
\* other.
C13_Witness ==
    /\ calendarData.absences =
          << [employee_id |-> 1, start_date |-> 20230130, end_date |-> 20230201],
             [employee_id |-> 1, start_date |-> 20230201, end_date |-> 20230203] >>
    /\ Len(getEventsForCell(20230201, 1).absences) = 2
    /\ Len(getEventsForCell(20230202, 1).absences) = 1

\* The cells of the grid that show service s (column 0 is the inbox).
CellsShowing(rows, s) ==
    {c \in (1..Len(rows)) \X (0..Len(calendarData.employees)) :
        LET cell == IF c[2] = 0 THEN InboxCell(rows[c[1]])
                    ELSE EmployeeCell(rows[c[1]], calendarData.employees[c[2]])
        IN Count(cell.services, s) > 0}

\* C14: the inbox cell of every row holds exactly the loaded services of
\* that date with employee_id = null and no absence; an unassigned service
\* is in no employee's cell; every loaded service is in at most one cell.
C14_InboxAndPlacement ==
    LET rows == dateRows
    IN /\ \A i \in 1..Len(rows) :
             LET d == rows[i]
             IN /\ InboxCell(d).absences = <<>>
                /\ \A s \in ServiceInputs :
                      Count(InboxCell(d).services, s) =
                         IF s.date = d /\ s.employee_id = NullId
                           THEN Count(calendarData.services, s) ELSE 0
                /\ \A emp \in Roster, s \in ServiceInputs :
                      s.employee_id = NullId => Count(EmployeeCell(d, emp).services, s) = 0
       /\ \A k \in 1..Len(calendarData.services) :
             Cardinality(CellsShowing(rows, calendarData.services[k])) <= 1

\* C14 witness: an unassigned service and a service of employee 2 on the
\* same date are loaded, next to an absence of employee 2.
C14_Witness ==
    /\ calendarData.services =
          << [date |-> 20230201, employee_id |-> NullId],
             [date |-> 20230201, employee_id |-> 2] >>
    /\ Len(calendarData.absences) = 1 /\ calendarData.absences[1].employee_id = 2
    /\ Len(InboxCell(20230201).services) = 1
    /\ Cardinality(CellsShowing(dateRows, calendarData.services[1])) = 1

\* C15: once every refresh has completed (and no employee request was ever
\* made), the state is the outcome of the last-issued refresh: loading is
\* over, with error = null if it succeeded and with the fetch error if it
\* failed.
C15_LastOutcomeWins ==
    (/\ pendingEffects = {}
     /\ InFlight = {}
     /\ CalendarRequests = 1..Len(issued)
     /\ issued # <<>>) =>
        /\ ~loading
        /\ error = IF settled[Len(issued)] = "ok" THEN NoError ELSE FetchError

\* C16: after setQuickFilter with a kind other than '1week', and until the
\* next command, the window is the preset one: from the Monday of today's
\* week to the end computed for the kind.
C16_PresetWindowKept ==
    (lastCmd.op = "setQuickFilter" /\ lastCmd.arg \in QuickFilters \ {"1week"}) =>
        LET start == WeekStart([day |-> lastCmd.today, time |-> ClockTime])
        IN dateRange = [start |-> format(start),
                        end |-> format(quickFilterEnd(lastCmd.arg, start))]

\* C17: whenever a refresh is in flight, loading is true.
C17_InFlightIsLoading ==
    (\E r \in InFlight : issued[r].kind = "calendar") => loading

\* C18: when an employee request succeeds, the refresh issued on its
\* completion asks for the window and the compact mode of that moment.
C18_RefreshUsesCurrentWindow ==
    [][\A r \in InFlight :
          (issued[r].kind \in Mutations /\ settled'[r] = "ok") =>
              /\ Len(issued') = Len(issued) + 1
              /\ issued'[Len(issued')].kind = "calendar"
              /\ issued'[Len(issued')].range = dateRange
              /\ issued'[Len(issued')].compact = compactMode]_vars

\* C19: the positions sent by successful addEmployee commands are pairwise
\* distinct.
C19_PositionsDistinct ==
    \A r1, r2 \in 1..Len(issued) :
        (/\ r1 # r2
         /\ issued[r1].kind = "create" /\ issued[r2].kind = "create"
         /\ settled[r1] = "ok" /\ settled[r2] = "ok") =>
            issued[r1].position # issued[r2].position

\* C20: with every request answered, loading never lasts: a state with
\* loading = true leads to one with loading = false, and once the effects
\* have run and no request is in flight, loading is false with error null
\* (Ready) or set (Failed).
C20_LeavesLoading ==
    /\ loading ~> ~loading
    /\ []((pendingEffects = {} /\ InFlight = {}) =>
             (~loading /\ error \in {NoError, FetchError, CreateError, UpdateError}))

\* C20 witness: three refreshes were issued, overlapping ones included, the
\* last to be answered failed, and nothing is in flight: Failed, not Loading.
C20_Witness ==
    /\ Len(issued) >= 3 /\ InFlight = {} /\ pendingEffects = {}
    /\ settled[lastSettled] = "failed" /\ issued[lastSettled].kind = "calendar"
    /\ ~loading /\ error = FetchError

====
